---- MODULE Spec2Model ----
(***************************************************************************)
(* Model of src/src/main.py: the start-up reconciliation                   *)
(* (sync_folders_with_progress, run A->B then B->A) followed by the live   *)
(* mirror handler MyEventHandler.on_any_event fed by an observer that      *)
(* watches root A.                                                         *)
(*                                                                         *)
(* The file system is one function fs from absolute paths (sequences of    *)
(* path components) to nodes; a path exists iff it is in DOMAIN fs.        *)
(***************************************************************************)
EXTENDS Integers, Sequences, FiniteSets, TLC

VARIABLES
    fs,       \* the file system: absolute path -> node
    fs0,      \* the file system at start-up (never changes)
    plan,     \* the reconciliation calls of the run, <<[src, dest], ...>>
    call,     \* index in plan of the call being executed
    pc,       \* "sync", "observe", "live" or "crashed"
    pass,     \* "fwd" (src to dest) or "rev" (dest to src) loop of the call
    stack,    \* os.walk: directories still to visit
    cur,      \* os.walk: directory being processed
    files,    \* os.walk: file names of cur still to process
    copied,   \* the shutil.copy2 calls reconciliation has made
    watched,  \* roots the observer has a subscription on
    observer, \* the observer thread: "idle", "running" or "dead"
    queue,    \* events emitted by the observer, not yet handled
    handled,  \* number of on_any_event calls so far
    log,      \* "Error handling event ..." lines printed
    last,     \* the last on_any_event call: event, file system before, outcome
    ops,      \* number of changes made to root A by its user
    budget,   \* number of such changes the run explores
    mapping   \* a path taken through the path mapping: input, result, roots

vars == <<fs, fs0, plan, call, pc, pass, stack, cur, files, copied, watched,
          observer, queue, handled, log, last, ops, budget, mapping>>

\* ------------------------------------------------------------------ bounds
MaxMtime == 2
InitDirMtime == 1
MaxOps == 3
MaxLiveOps == 4

MaxDeliver == 1
MaxPathLen == 3
MaxHops == 2

Contents == {"a", "b"}
Now == MaxMtime + 1

\* ------------------------------------------------------------------ roots
server1_folder == <<"A">>
server2_folder == <<"B">>

\* ------------------------------------------------------------------ nodes
DirNode(m) == [kind |-> "dir", content |-> "-", mtime |-> m]
FileNode(c, m) == [kind |-> "file", content |-> c, mtime |-> m]
NoNode == [kind |-> "none", content |-> "-", mtime |-> 0]

\* ------------------------------------------------------------------ paths
Parent(p) == SubSeq(p, 1, Len(p) - 1)
Basename(p) == p[Len(p)]
IsPrefix(p, q) == Len(p) <= Len(q) /\ SubSeq(q, 1, Len(p)) = p

RECURSIVE NormAcc(_, _)
NormAcc(acc, rest) ==
    IF rest = <<>> THEN acc
    ELSE LET c == Head(rest) IN
         IF c = "." THEN NormAcc(acc, Tail(rest))
         ELSE IF c = ".."
              THEN NormAcc(IF acc = <<>> THEN <<>> ELSE Parent(acc), Tail(rest))
              ELSE NormAcc(Append(acc, c), Tail(rest))

\* The path the operating system resolves: "." and ".." components applied.
Norm(p) == NormAcc(<<>>, p)

RECURSIVE CommonLen(_, _)
CommonLen(p, q) ==
    IF p = <<>> \/ q = <<>> \/ Head(p) # Head(q) THEN 0
    ELSE 1 + CommonLen(Tail(p), Tail(q))

\* os.path.relpath(path, start)
Relpath(path, start) ==
    LET p == Norm(path)
        s == Norm(start)
        i == CommonLen(p, s)
        ups == [k \in 1..(Len(s) - i) |-> ".."]
        rel == ups \o SubSeq(p, i + 1, Len(p))
    IN IF rel = <<>> THEN <<".">> ELSE rel

\* os.path.join(a, b) for a relative b
Join(a, b) == a \o b

\* ------------------------------------------------------------------ queries
Exists(f, p) == Norm(p) \in DOMAIN f
IsDir(f, p) == Exists(f, p) /\ f[Norm(p)].kind = "dir"
IsFile(f, p) == Exists(f, p) /\ f[Norm(p)].kind = "file"
Getmtime(f, p) == f[Norm(p)].mtime

\* ------------------------------------------------------------------ results
Ok(f) == [ok |-> TRUE, fs |-> f]
Fail(f) == [ok |-> FALSE, fs |-> f]

\* ------------------------------------------------------------------ updates
\* A new directory entry changes the modification time of its directory.
Touch(f, d) == IF d \in DOMAIN f THEN [f EXCEPT ![d] = DirNode(Now)] ELSE f

Put(f, p, node) ==
    IF p \in DOMAIN f
    THEN [f EXCEPT ![p] = node]
    ELSE LET g == Touch(f, Parent(p))
         IN [q \in DOMAIN f \cup {p} |-> IF q = p THEN node ELSE g[q]]

RemoveTree(f, p) ==
    LET g == Touch(f, Parent(p))
    IN [q \in {r \in DOMAIN f : ~IsPrefix(p, r)} |-> g[q]]

\* Mutant: shutil.copy, which leaves the destination with the time of the write.
CopyNoStat(f, src, dst) ==
    LET s == Norm(src)
        d0 == Norm(dst)
        d == IF IsDir(f, d0) THEN Append(d0, Basename(s)) ELSE d0
    IN IF ~IsFile(f, s) THEN Fail(f)
       ELSE IF s = d THEN Fail(f)
       ELSE IF IsDir(f, d) \/ ~IsDir(f, Parent(d)) THEN Fail(f)
       ELSE Ok(Put(f, d, FileNode(f[s].content, Now)))

\* shutil.copy2(src, dst): content and modification time
Copy2(f, src, dst) ==
    LET s == Norm(src)
        d0 == Norm(dst)
        d == IF IsDir(f, d0) THEN Append(d0, Basename(s)) ELSE d0
    IN IF ~IsFile(f, s) THEN Fail(f)
       ELSE IF s = d THEN Fail(f)
       ELSE IF IsDir(f, d) \/ ~IsDir(f, Parent(d)) THEN Fail(f)
       ELSE Ok(Put(f, d, FileNode(f[s].content, f[s].mtime)))

\* Mutant: the directory is not created.
MakedirsNothing(f, path, exist_ok) == Ok(f)

\* os.makedirs(p, exist_ok)
Makedirs(f, path, exist_ok) ==
    LET p == Norm(path)
        missing == {k \in 1..Len(p) : SubSeq(p, 1, k) \notin DOMAIN f}
    IN IF missing = {}
       THEN IF exist_ok /\ IsDir(f, p) THEN Ok(f) ELSE Fail(f)
       ELSE LET first == CHOOSE k \in missing : \A j \in missing : k <= j
                anc == SubSeq(p, 1, first - 1)
                new == {SubSeq(p, 1, k) : k \in first..Len(p)}
                g == Touch(f, anc)
            IN IF ~IsDir(f, anc) THEN Fail(f)
               ELSE Ok([q \in DOMAIN f \cup new |->
                          IF q \in new THEN DirNode(Now) ELSE g[q]])

\* Mutant: os.rmdir, which refuses a directory that is not empty.
RmdirOnly(f, path) ==
    IF \E q \in DOMAIN f : IsPrefix(Norm(path), q) /\ q # Norm(path)
    THEN Fail(f)
    ELSE Ok(RemoveTree(f, Norm(path)))

\* shutil.rmtree(p) of a directory
Rmtree(f, path) == Ok(RemoveTree(f, Norm(path)))

\* os.remove(p) of a file
Remove(f, path) == Ok(RemoveTree(f, Norm(path)))

\* The subtree at s re-rooted at d.
Rename(f, s, d) ==
    LET g == Touch(Touch(f, Parent(s)), Parent(d))
        keep == {q \in DOMAIN f : ~IsPrefix(s, q) /\ ~IsPrefix(d, q)}
        moved == {d \o SubSeq(q, Len(s) + 1, Len(q)) : q \in {r \in DOMAIN f : IsPrefix(s, r)}}
    IN [q \in keep \cup moved |->
          IF q \in moved THEN f[s \o SubSeq(q, Len(d) + 1, Len(q))] ELSE g[q]]

\* shutil.move(src, dst) of an existing src
MoveExisting(f, s, d0) ==
    LET into == IsDir(f, d0) /\ s # d0
        d == IF into THEN Append(d0, Basename(s)) ELSE d0
    IN IF s = d0 THEN Ok(f)
       ELSE IF into /\ Exists(f, d) THEN Fail(f)
       ELSE IF IsPrefix(s, d) THEN Fail(f)
       ELSE IF IsFile(f, s)
            THEN IF IsDir(f, Parent(d)) THEN Ok(Rename(f, s, d)) ELSE Fail(f)
            ELSE IF IsFile(f, d) THEN Fail(f)
                 ELSE LET m == Makedirs(f, Parent(d), TRUE)
                      IN IF m.ok THEN Ok(Rename(m.fs, s, d)) ELSE Fail(f)

\* Mutant: a missing source is skipped silently.
MoveIfExists(f, src, dst) ==
    IF ~Exists(f, src) THEN Ok(f) ELSE MoveExisting(f, Norm(src), Norm(dst))

\* shutil.move(src, dst)
Move(f, src, dst) ==
    IF ~Exists(f, src) THEN Fail(f) ELSE MoveExisting(f, Norm(src), Norm(dst))

\* ------------------------------------------------------------------ handler
Event(type, src, dest, isdir) ==
    [event_type |-> type, src_path |-> src, dest_path |-> dest, is_directory |-> isdir]

NoEvent == Event("none", <<>>, <<>>, FALSE)

\* Mutant: the relative path is joined to the root it was taken from.
MappedInPlace(path, src_root, dest_root) == Join(src_root, Relpath(path, src_root))

\* Mutant: os.path.basename for os.path.relpath.
MappedFlat(path, src_root, dest_root) ==
    IF Norm(path) = <<>> THEN dest_root ELSE Join(dest_root, <<Basename(Norm(path))>>)

\* mapped(path): the handler's path mapping, lines 53-54 and 84
Mapped(path, src_root, dest_root) == Join(dest_root, Relpath(path, src_root))

\* The body of the try block of on_any_event for MyEventHandler(src, dest).
on_any_event(f, event, src_root, dest_root) ==
    LET dest_path == Mapped(event.src_path, src_root, dest_root)
    IN CASE event.event_type = "created" ->
              IF IsDir(f, event.src_path)
              THEN Makedirs(f, dest_path, TRUE)
              ELSE Copy2(f, event.src_path, dest_path)
         [] event.event_type = "modified" ->
              IF ~IsDir(f, event.src_path)
              THEN Copy2(f, event.src_path, dest_path)
              ELSE Ok(f)
         [] event.event_type = "deleted" ->
              IF IsDir(f, dest_path) THEN Rmtree(f, dest_path)
              ELSE IF Exists(f, dest_path) THEN Remove(f, dest_path)
              ELSE Ok(f)
         [] event.event_type = "moved" ->
              Move(f, dest_path, Mapped(event.dest_path, src_root, dest_root))
         [] OTHER -> Ok(f)

\* No path is being mapped on its own.
NoMapping == [p |-> <<>>, at |-> <<>>, r1 |-> <<>>, r2 |-> <<>>, hops |-> 0]

\* ------------------------------------------------------------------ reconciliation
Call == plan[call]
WalkRoot == IF pass = "fwd" THEN Call.src ELSE Call.dest
OtherRoot == IF pass = "fwd" THEN Call.dest ELSE Call.src

Children(f, d) == {q \in DOMAIN f : Len(q) = Len(d) + 1 /\ IsPrefix(d, q)}

Orders(S) == {s \in [1..Cardinality(S) -> S] : \A i, j \in 1..Cardinality(S) : s[i] = s[j] => i = j}

Crash == /\ pc' = "crashed"
         /\ UNCHANGED <<fs, fs0, plan, call, pass, stack, cur, files, copied, watched,
                        observer, queue, handled, log, last, ops, budget, mapping>>

\* One iteration of "for src_dir, _, files in os.walk(...)" up to the inner loop:
\* os.walk lists the next directory, the loop body creates its counterpart.
VisitDir ==
    /\ pc = "sync" /\ files = {} /\ stack # <<>>
    /\ LET dir == Head(stack)
           relative_dir == Relpath(dir, WalkRoot)
           dest_dir == Join(OtherRoot, relative_dir)
           subdirs == {q \in Children(fs, dir) : fs[q].kind = "dir"}
           names == {Basename(q) : q \in {r \in Children(fs, dir) : fs[r].kind = "file"}}
           m == IF ~Exists(fs, dest_dir) THEN Makedirs(fs, dest_dir, FALSE) ELSE Ok(fs)
       IN IF ~IsDir(fs, dir)
          THEN /\ stack' = Tail(stack)
               /\ UNCHANGED <<fs, fs0, plan, call, pc, pass, cur, files, copied, watched,
                              observer, queue, handled, log, last, ops, budget, mapping>>
          ELSE IF ~m.ok THEN Crash
          ELSE /\ fs' = m.fs
               /\ cur' = dir
               /\ files' = names
               /\ \E order \in Orders(subdirs) : stack' = order \o Tail(stack)
               /\ UNCHANGED <<fs0, plan, call, pc, pass, copied, watched, observer,
                              queue, handled, log, last, ops, budget, mapping>>

\* Mutant: ">=" for ">".
NeedsCopyOrEqual(f, src_file, dest_file) ==
    ~Exists(f, dest_file) \/ Getmtime(f, src_file) >= Getmtime(f, dest_file)

\* Mutant: a missing destination is not copied to.
NeedsCopyOnlyNewer(f, src_file, dest_file) ==
    Exists(f, dest_file) /\ Getmtime(f, src_file) > Getmtime(f, dest_file)

\* The copy condition of lines 108 and 126.
NeedsCopy(f, src_file, dest_file) ==
    ~Exists(f, dest_file) \/ Getmtime(f, src_file) > Getmtime(f, dest_file)

\* One iteration of "for file in files".
CopyFile ==
    /\ pc = "sync" /\ files # {}
    /\ \E file \in files :
         LET dest_dir == Join(OtherRoot, Relpath(cur, WalkRoot))
             src_file == Join(cur, <<file>>)
             dest_file == Join(dest_dir, <<file>>)
             r == Copy2(fs, src_file, dest_file)
         IN IF Exists(fs, dest_file) /\ ~Exists(fs, src_file) THEN Crash
            ELSE IF ~NeedsCopy(fs, src_file, dest_file)
            THEN /\ files' = files \ {file}
                 /\ UNCHANGED <<fs, fs0, plan, call, pc, pass, stack, cur, copied,
                                watched, observer, queue, handled, log, last, ops, budget, mapping>>
            ELSE IF ~r.ok THEN Crash
            ELSE /\ fs' = r.fs
                 /\ files' = files \ {file}
                 /\ copied' = copied \cup {[call |-> call, pass |-> pass,
                                            src |-> Norm(src_file), dest |-> Norm(dest_file)]}
                 /\ UNCHANGED <<fs0, plan, call, pc, pass, stack, cur, watched, observer,
                                queue, handled, log, last, ops, budget, mapping>>

\* The end of a walk: the second loop of the call, the next call, or line 150.
EndPass ==
    /\ pc = "sync" /\ files = {} /\ stack = <<>>
    /\ IF pass = "fwd"
       THEN /\ pass' = "rev"
            /\ stack' = <<Call.dest>>
            /\ UNCHANGED <<call, pc>>
       ELSE IF call < Len(plan)
       THEN /\ call' = call + 1
            /\ pass' = "fwd"
            /\ stack' = <<plan[call + 1].src>>
            /\ UNCHANGED pc
       ELSE /\ pc' = "observe"
            /\ UNCHANGED <<call, pass, stack>>
    /\ UNCHANGED <<fs, fs0, plan, cur, files, copied, watched, observer, queue,
                   handled, log, last, ops, budget, mapping>>

\* Mutant: the observer is scheduled and started before the reconciliation calls.
StartObserverEarly ==
    /\ observer = "idle" /\ pc \in {"sync", "observe"}
    /\ watched' = watched \cup {server1_folder}
    /\ observer' = "running"
    /\ pc' = IF pc = "observe" THEN "live" ELSE pc
    /\ UNCHANGED <<fs, fs0, plan, call, pass, stack, cur, files, copied, queue,
                   handled, log, last, ops, budget, mapping>>

\* observer.schedule(event_handler, server1_folder, recursive=True); observer.start()
StartObserver ==
    /\ pc = "observe"
    /\ watched' = watched \cup {server1_folder}
    /\ observer' = "running"
    /\ pc' = "live"
    /\ UNCHANGED <<fs, fs0, plan, call, pass, stack, cur, files, copied, queue,
                   handled, log, last, ops, budget, mapping>>

\* Mutant: no try/except around the body, the exception ends the observer thread.
HandleEventNoCatch ==
    /\ observer = "running" /\ queue # <<>>
    /\ LET event == Head(queue)
           r == on_any_event(fs, event, server1_folder, server2_folder)
       IN /\ fs' = r.fs
          /\ observer' = IF r.ok THEN observer ELSE "dead"
          /\ last' = [event |-> event, pre |-> fs, ok |-> r.ok]
    /\ queue' = Tail(queue)
    /\ handled' = handled + 1
    /\ UNCHANGED <<fs0, plan, call, pc, pass, stack, cur, files, copied, watched,
                   log, ops, budget, mapping>>

\* The observer thread delivers the oldest event to event_handler.on_any_event.
HandleEvent ==
    /\ observer = "running" /\ queue # <<>>
    /\ LET event == Head(queue)
           r == on_any_event(fs, event, server1_folder, server2_folder)
       IN /\ fs' = r.fs
          /\ log' = IF r.ok THEN log
                    ELSE Append(log, [event_type |-> event.event_type,
                                      src_path |-> event.src_path])
          /\ last' = [event |-> event, pre |-> fs, ok |-> r.ok]
    /\ queue' = Tail(queue)
    /\ handled' = handled + 1
    /\ UNCHANGED <<fs0, plan, call, pc, pass, stack, cur, files, copied, watched,
                   observer, ops, budget, mapping>>

\* ------------------------------------------------------------------ the user of root A
\* Changes made under the watched root; the observer (recursive subscription on
\* server1_folder) emits one event per change once it has been started.
RelPaths == {<<"d">>, <<"x">>, <<"d", "x">>}
UserPaths == {Join(server1_folder, r) : r \in RelPaths}

Emit(event) == IF server1_folder \in watched THEN Append(queue, event) ELSE queue

UserFrame == UNCHANGED <<fs0, plan, call, pc, pass, stack, cur, files, copied, watched,
                         observer, handled, log, last, budget, mapping>>

UserCreateFile ==
    /\ pc # "crashed" /\ ops < budget
    /\ \E p \in UserPaths, c \in Contents :
         /\ ~Exists(fs, p) /\ IsDir(fs, Parent(p))
         /\ fs' = Put(fs, p, FileNode(c, Now))
         /\ queue' = Emit(Event("created", p, <<>>, FALSE))
    /\ ops' = ops + 1
    /\ UserFrame

UserMkdir ==
    /\ pc # "crashed" /\ ops < budget
    /\ \E p \in UserPaths :
         /\ ~Exists(fs, p) /\ IsDir(fs, Parent(p))
         /\ fs' = Put(fs, p, DirNode(Now))
         /\ queue' = Emit(Event("created", p, <<>>, TRUE))
    /\ ops' = ops + 1
    /\ UserFrame

UserModify ==
    /\ pc # "crashed" /\ ops < budget
    /\ \E p \in UserPaths, c \in Contents :
         /\ IsFile(fs, p) /\ fs[p].content # c
         /\ fs' = Put(fs, p, FileNode(c, Now))
         /\ queue' = Emit(Event("modified", p, <<>>, FALSE))
    /\ ops' = ops + 1
    /\ UserFrame

UserDelete ==
    /\ pc # "crashed" /\ ops < budget
    /\ \E p \in UserPaths :
         /\ Exists(fs, p)
         /\ fs' = RemoveTree(fs, p)
         /\ queue' = Emit(Event("deleted", p, <<>>, IsDir(fs, p)))
    /\ ops' = ops + 1
    /\ UserFrame

\* rename(2): onto nothing, a file onto a file, a directory onto an empty directory
CanRename(f, p, q) ==
    /\ Exists(f, p) /\ p # q /\ ~IsPrefix(p, q) /\ IsDir(f, Parent(q))
    /\ \/ ~Exists(f, q)
       \/ IsFile(f, p) /\ IsFile(f, q)
       \/ IsDir(f, p) /\ IsDir(f, q) /\ Children(f, q) = {}

UserMove ==
    /\ pc # "crashed" /\ ops < budget
    /\ \E p \in UserPaths, q \in UserPaths :
         /\ CanRename(fs, p, q)
         /\ fs' = Rename(fs, p, q)
         /\ queue' = Emit(Event("moved", p, q, IsDir(fs, p)))
    /\ ops' = ops + 1
    /\ UserFrame

\* ------------------------------------------------------------------ initial states
Opts == {NoNode} \cup {FileNode(c, m) : c \in Contents, m \in 1..MaxMtime}
               \cup {DirNode(InitDirMtime)}

\* A tree with entries x, d and d/x under its root.
Shapes == {s \in [x : Opts, d : Opts, dx : Opts] : s.dx # NoNode => s.d.kind = "dir"}

Entries(root, s) ==
    {e \in {<<Join(root, <<"x">>), s.x>>, <<Join(root, <<"d">>), s.d>>,
            <<Join(root, <<"d", "x">>), s.dx>>} : e[2] # NoNode}

MkFs(sa, sb) ==
    LET es == {<<<<>>, DirNode(InitDirMtime)>>,
               <<server1_folder, DirNode(InitDirMtime)>>,
               <<server2_folder, DirNode(InitDirMtime)>>}
              \cup Entries(server1_folder, sa) \cup Entries(server2_folder, sb)
    IN [p \in {e[1] : e \in es} |-> (CHOOSE e \in es : e[1] = p)[2]]

\* An empty tree.
NoShape == [x |-> NoNode, d |-> NoNode, dx |-> NoNode]

\* Lines 147-148: sync(A, B) then sync(B, A).
StartupPlan == <<[src |-> server1_folder, dest |-> server2_folder],
                 [src |-> server2_folder, dest |-> server1_folder]>>

\* The same call twice in a row.
TwicePlan == <<[src |-> server1_folder, dest |-> server2_folder],
               [src |-> server1_folder, dest |-> server2_folder]>>

InitWith(f, pl) ==
    /\ fs = f /\ fs0 = f
    /\ plan = pl /\ call = 1
    /\ pc = "sync" /\ pass = "fwd"
    /\ stack = <<pl[1].src>> /\ cur = <<>> /\ files = {}
    /\ copied = {}
    /\ watched = {} /\ observer = "idle" /\ queue = <<>>
    /\ handled = 0 /\ log = <<>>
    /\ last = [event |-> NoEvent, pre |-> f, ok |-> TRUE]
    /\ ops = 0 /\ budget = MaxOps
    /\ mapping = NoMapping

\* Trees of the whole-program specification: an optional file x, an optional
\* empty directory d.
SmallShapes == {s \in Shapes : /\ s.x \in {NoNode, FileNode("a", 1)}
                               /\ s.d.kind # "file" /\ s.dx = NoNode}

Init == \E sa \in SmallShapes, sb \in SmallShapes : InitWith(MkFs(sa, sb), StartupPlan)

InitSync == \E sa \in Shapes, sb \in Shapes : InitWith(MkFs(sa, sb), StartupPlan)

InitTwice == \E sa \in Shapes, sb \in Shapes : InitWith(MkFs(sa, sb), TwicePlan)

\* The live phase entered with the two roots in sync: empty, a file x, or a
\* file x beside a directory d holding d/x.
LiveShapes == {s \in Shapes : /\ s.x \in {NoNode, FileNode("a", MaxMtime)}
                              /\ s.d.kind # "file"
                              /\ s.d.kind = "dir" => s.x # NoNode
                              /\ s.dx = IF s.d.kind = "dir" THEN FileNode("a", MaxMtime)
                                        ELSE NoNode}

InitLive ==
    \E s \in LiveShapes :
        /\ fs = MkFs(s, s) /\ fs0 = MkFs(s, s)
        /\ plan = StartupPlan /\ call = 2
        /\ pc = "live" /\ pass = "rev"
        /\ stack = <<>> /\ cur = <<>> /\ files = {}
        /\ copied = {}
        /\ watched = {server1_folder} /\ observer = "running" /\ queue = <<>>
        /\ handled = 0 /\ log = <<>>
        /\ last = [event |-> NoEvent, pre |-> MkFs(s, s), ok |-> TRUE]
        /\ ops = 0 /\ budget = MaxLiveOps
        /\ mapping = NoMapping

\* ------------------------------------------------------------------ specifications
Reconcile == VisitDir \/ CopyFile \/ EndPass

User == UserCreateFile \/ UserMkdir \/ UserModify \/ UserDelete \/ UserMove

Next == Reconcile \/ StartObserver \/ HandleEvent \/ User

NextSync == Reconcile \/ StartObserver

NextLive == HandleEvent \/ User

\* The whole program with a user changing root A at any time.
Spec == Init /\ [][Next]_vars

\* Start-up on quiescent trees, every pair of trees.
SpecSync == InitSync /\ [][NextSync]_vars

\* sync(A, B) twice in a row on quiescent trees.
SpecTwice == InitTwice /\ [][NextSync]_vars

\* The live phase, from roots in sync.
SpecLive == InitLive /\ [][NextLive]_vars

\* ------------------------------------------------------------------ the handler on any event
\* on_any_event is a public method: it is called here with any event over a
\* few paths, those of a root C outside the watched root included, whatever
\* the two roots hold.
outside_folder == <<"C">>

DirectPaths == UserPaths \cup {Join(outside_folder, <<"x">>)}

DirectEvents ==
    {Event(t, p, <<>>, b) : t \in {"created", "modified", "deleted"},
                            p \in DirectPaths, b \in BOOLEAN}
    \cup {e \in {Event("moved", p, q, b) : p \in DirectPaths, q \in DirectPaths,
                                           b \in BOOLEAN} : e.src_path # e.dest_path}

DeliverEvent ==
    /\ observer = "running" /\ handled < MaxDeliver
    /\ \E event \in DirectEvents :
         LET r == on_any_event(fs, event, server1_folder, server2_folder)
         IN /\ fs' = r.fs
            /\ log' = IF r.ok THEN log
                      ELSE Append(log, [event_type |-> event.event_type,
                                        src_path |-> event.src_path])
            /\ last' = [event |-> event, pre |-> fs, ok |-> r.ok]
    /\ handled' = handled + 1
    /\ UNCHANGED <<fs0, plan, call, pc, pass, stack, cur, files, copied, watched,
                   observer, queue, ops, budget, mapping>>

\* Root A with files of time 1, root B with files of time MaxMtime.
SourceShapes == {s \in Shapes : \A n \in {s.x, s.d, s.dx} :
                                  n.kind = "file" => n = FileNode("a", 1)}
MirrorShapes == {s \in Shapes : \A n \in {s.x, s.d, s.dx} :
                                  n.kind = "file" => n = FileNode("b", MaxMtime)}

\* f with the outside root C holding a file x.
WithOutside(f) ==
    LET c == outside_folder
        cx == Join(outside_folder, <<"x">>)
    IN [p \in DOMAIN f \cup {c, cx} |->
          IF p = c THEN DirNode(InitDirMtime)
          ELSE IF p = cx THEN FileNode("a", 1) ELSE f[p]]

InitDirect ==
    \E sa \in SourceShapes, sb \in MirrorShapes :
        /\ fs = WithOutside(MkFs(sa, sb)) /\ fs0 = WithOutside(MkFs(sa, sb))
        /\ plan = StartupPlan /\ call = 2
        /\ pc = "live" /\ pass = "rev"
        /\ stack = <<>> /\ cur = <<>> /\ files = {}
        /\ copied = {}
        /\ watched = {server1_folder} /\ observer = "running" /\ queue = <<>>
        /\ handled = 0 /\ log = <<>>
        /\ last = [event |-> NoEvent, pre |-> WithOutside(MkFs(sa, sb)), ok |-> TRUE]
        /\ ops = 0 /\ budget = 0
        /\ mapping = NoMapping

NextDirect == DeliverEvent

SpecDirect == InitDirect /\ [][NextDirect]_vars

\* ------------------------------------------------------------------ the path mapping on its own
\* join(toRoot, relpath(path, fromRoot)) applied to a path p from r1 to r2, then
\* to the result from r2 to r1, and so on.
Components == {"A", "B", "d", ".", ".."}
MapPaths == UNION {[1..n -> Components] : n \in 0..MaxPathLen}
MapRoots == {<<"A">>, <<"B">>, <<"A", "d">>, <<"B", "d">>}

MapPath ==
    /\ mapping.hops < MaxHops
    /\ mapping' = [mapping EXCEPT
                       !.at = IF mapping.hops % 2 = 0
                              THEN Mapped(mapping.at, mapping.r1, mapping.r2)
                              ELSE Mapped(mapping.at, mapping.r2, mapping.r1),
                       !.hops = mapping.hops + 1]
    /\ UNCHANGED <<fs, fs0, plan, call, pc, pass, stack, cur, files, copied, watched,
                   observer, queue, handled, log, last, ops, budget>>

InitMap ==
    /\ \E p \in MapPaths, r1 \in MapRoots, r2 \in MapRoots :
          mapping = [p |-> p, at |-> p, r1 |-> r1, r2 |-> r2, hops |-> 0]
    /\ fs = MkFs(NoShape, NoShape) /\ fs0 = MkFs(NoShape, NoShape)
    /\ plan = StartupPlan /\ call = 2
    /\ pc = "live" /\ pass = "rev"
    /\ stack = <<>> /\ cur = <<>> /\ files = {}
    /\ copied = {}
    /\ watched = {} /\ observer = "idle" /\ queue = <<>>
    /\ handled = 0 /\ log = <<>>
    /\ last = [event |-> NoEvent, pre |-> MkFs(NoShape, NoShape), ok |-> TRUE]
    /\ ops = 0 /\ budget = 0

NextMap == MapPath

SpecMap == InitMap /\ [][NextMap]_vars

\* ------------------------------------------------------------------ vocabulary of the claims
InA(r) == Join(server1_folder, r)
InB(r) == Join(server2_folder, r)

\* Relative paths present under either root in f.
RelOf(f) == {SubSeq(p, 2, Len(p)) : p \in {q \in DOMAIN f : Len(q) >= 2}}

\* Reconciliation has finished: both calls returned.
SyncReturned == pc \in {"observe", "live"}

\* Reconciliation has ended, by returning or by an uncaught exception.
SyncEnded == pc \in {"observe", "live", "crashed"}

\* No relative path is a file under one root and a directory under the other.
NoConflict0 ==
    \A r \in RelOf(fs0) :
        /\ ~(IsFile(fs0, InA(r)) /\ IsDir(fs0, InB(r)))
        /\ ~(IsDir(fs0, InA(r)) /\ IsFile(fs0, InB(r)))

InitFiles == {r \in RelOf(fs0) : IsFile(fs0, InA(r)) \/ IsFile(fs0, InB(r))}

BothFiles0(r) == IsFile(fs0, InA(r)) /\ IsFile(fs0, InB(r))

\* The original copies of r with the greatest modification time.
Newest0(r) ==
    LET cs == {fs0[p] : p \in {q \in {InA(r), InB(r)} : IsFile(fs0, q)}}
    IN {n \in cs : \A k \in cs : k.mtime <= n.mtime}

\* r is a file under both roots, both copies equal to one most recent original.
Converged(r) ==
    /\ IsFile(fs, InA(r)) /\ IsFile(fs, InB(r))
    /\ fs[InA(r)] = fs[InB(r)]
    /\ fs[InA(r)] \in Newest0(r)

\* C1 (as claimed): for any two initial trees, once sync(A,B) and sync(B,A) have
\* run, every path that was a file in A or in B is a file in both trees, both
\* copies with the content and modification time of the most recently modified
\* original.
C1_Convergence ==
    SyncEnded => \A r \in InitFiles : Converged(r)

\* C1 (amended): for initial trees without file/directory type conflict the two
\* calls return, and then every path that was a file in A or in B is a file in
\* both trees with the greatest original modification time; the content of both
\* copies is that of the most recent original when the path was a file on one
\* side only or the two original times differ, and with equal original times
\* each tree keeps its own original content.
C1_ConvergenceAmended ==
    NoConflict0 =>
        /\ pc # "crashed"
        /\ SyncReturned =>
             \A r \in InitFiles :
                /\ IsFile(fs, InA(r)) /\ IsFile(fs, InB(r))
                /\ \A n \in Newest0(r) :
                      fs[InA(r)].mtime = n.mtime /\ fs[InB(r)].mtime = n.mtime
                /\ IF BothFiles0(r) /\ fs0[InA(r)].mtime = fs0[InB(r)].mtime
                   THEN fs[InA(r)] = fs0[InA(r)] /\ fs[InB(r)] = fs0[InB(r)]
                   ELSE Converged(r)

\* C1 witness: both calls returned on conflict-free trees holding a file newer in
\* A, and a file with equal times and different contents.
C1_Witness ==
    /\ SyncReturned /\ NoConflict0
    /\ \E r \in InitFiles : BothFiles0(r) /\ fs0[InA(r)].mtime > fs0[InB(r)].mtime
    /\ \E r \in InitFiles : /\ BothFiles0(r)
                             /\ fs0[InA(r)].mtime = fs0[InB(r)].mtime
                             /\ fs0[InA(r)].content # fs0[InB(r)].content

\* C2: sync(A, B) run twice in a row: the second run copies no file.
C2_Idempotence ==
    \A c \in copied : c.call = 1

\* C2 witness: the second run has returned after a first run that copied.
C2_Witness ==
    /\ SyncReturned /\ call = 2 /\ copied # {}

\* C3 (as claimed): once reconciliation has ended, a file that existed only in B
\* has been copied into A, and a file of both trees that was newer in A was
\* copied into B by the first call and by nothing afterwards.
OnlyInB0(r) == IsFile(fs0, InB(r)) /\ ~Exists(fs0, InA(r))
NewerInA0(r) == BothFiles0(r) /\ fs0[InA(r)].mtime > fs0[InB(r)].mtime

PassOrdering ==
    \A r \in InitFiles :
        /\ OnlyInB0(r) =>
              /\ IsFile(fs, InA(r)) /\ fs[InA(r)] = fs0[InB(r)]
              /\ \E c \in copied : c.src = InB(r) /\ c.dest = InA(r)
        /\ NewerInA0(r) =>
              \A c \in copied :
                  (c.src \in {InA(r), InB(r)} \/ c.dest \in {InA(r), InB(r)}) =>
                      c = [call |-> 1, pass |-> "fwd", src |-> InA(r), dest |-> InB(r)]
        /\ NewerInA0(r) =>
              \E c \in copied : c.call = 1 /\ c.src = InA(r) /\ c.dest = InB(r)

SyncComplete ==
    /\ pc = "live" /\ call = Len(plan) /\ pass = "rev" /\ stack = <<>> /\ files = {}

C4_ReconcileBeforeLive ==
    /\ (handled > 0 \/ queue # <<>> \/ observer # "idle") => SyncComplete
    /\ watched \subseteq {server1_folder}
    /\ (observer # "idle") => watched = {server1_folder}

\* C4 witness: an event has been handled after a reconciliation that copied files.
C4_Witness ==
    /\ handled > 0 /\ copied # {} /\ \E c \in copied : c.call = 1

\* ------------------------------------------------------------------ the live phase
\* What is compared between two trees: kind and content, and a file's time.
View(n) == [kind |-> n.kind, content |-> n.content,
            mtime |-> IF n.kind = "file" THEN n.mtime ELSE 0]

\* The tree under root, by relative path.
Sub(f, root) ==
    [r \in {SubSeq(p, Len(root) + 1, Len(p)) : p \in {q \in DOMAIN f : IsPrefix(root, q)}}
        |-> View(f[Join(root, r)])]

\* Files, directories and contents of the mirror equal those of the watched root.
MirrorEq(f) ==
    LET a == Sub(f, server1_folder)
        b == Sub(f, server2_folder)
    IN /\ DOMAIN a = DOMAIN b
       /\ \A r \in DOMAIN a : a[r].kind = b[r].kind /\ a[r].content = b[r].content

LastMapped == Norm(Mapped(last.event.src_path, server1_folder, server2_folder))
LastMappedNew == Norm(Mapped(last.event.dest_path, server1_folder, server2_folder))

\* The subtree of f at path p, by path relative to p.
SubtreeAt(f, p) == Sub(f, p)

MirrorUnchanged == Sub(fs, server2_folder) = Sub(last.pre, server2_folder)

LastReported ==
    /\ log # <<>>
    /\ log[Len(log)] = [event_type |-> last.event.event_type,
                        src_path |-> last.event.src_path]

\* C5 (as claimed): from roots in sync, whatever changes are made to A and however
\* late their events are handled, once every emitted event has been handled the
\* mirror holds the same files, directories and contents as A.
C5_MirrorFollows ==
    (observer = "running" /\ queue = <<>>) => MirrorEq(fs)

\* C6 (as claimed): when the Created event of a file X that still exists has been
\* handled, mapped(X) is a file with the content of X, whatever the mirror held.
C6_CreatePropagates ==
    (/\ last.event.event_type = "created" /\ ~last.event.is_directory
     /\ IsFile(last.pre, last.event.src_path)) =>
        /\ IsFile(fs, LastMapped)
        /\ fs[LastMapped].content = last.pre[last.event.src_path].content

\* C7: after a Deleted event for p has been handled, mapped(p) and everything
\* below it are absent from the mirror and the rest of the mirror is as before;
\* the handling raises nothing, also when mapped(p) was already absent.
C7_DeletePropagates ==
    (last.event.event_type = "deleted") =>
        /\ last.ok
        /\ \A q \in DOMAIN fs : ~IsPrefix(LastMapped, q)
        /\ \A q \in DOMAIN last.pre :
              (IsPrefix(server2_folder, q) /\ ~IsPrefix(LastMapped, q)) =>
                  q \in DOMAIN fs /\ View(fs[q]) = View(last.pre[q])
        /\ \A q \in DOMAIN fs : IsPrefix(server2_folder, q) => q \in DOMAIN last.pre
        /\ ~Exists(last.pre, LastMapped) => MirrorUnchanged

\* C7 witness: a Deleted event was handled while mapped(p) was a directory with
\* descendants and the mirror held other paths.
C7_Witness ==
    /\ last.event.event_type = "deleted"
    /\ IsDir(last.pre, LastMapped)
    /\ Children(last.pre, LastMapped) # {}
    /\ \E q \in DOMAIN fs : Len(q) > 1 /\ IsPrefix(server2_folder, q)

\* C8 (as claimed): after a Moved event old -> new has been handled with
\* mapped(old) existing, mapped(old) is gone and mapped(new) holds what
\* mapped(old) held, whatever else the mirror held.
C8_MovePropagates ==
    (last.event.event_type = "moved" /\ Exists(last.pre, LastMapped)) =>
        /\ ~Exists(fs, LastMapped)
        /\ Exists(fs, LastMappedNew)
        /\ SubtreeAt(fs, LastMappedNew) = SubtreeAt(last.pre, LastMapped)

\* C9: a Moved event whose mapped(old) does not exist is reported as an error
\* with its kind and source path, the observer keeps running and the mirror is
\* unchanged.
C9_MoveMissingSource ==
    (last.event.event_type = "moved" /\ ~Exists(last.pre, LastMapped)) =>
        /\ ~last.ok
        /\ LastReported
        /\ observer = "running"
        /\ MirrorUnchanged

\* C9 witness: such a Moved event was handled while mapped(new) and its parent
\* did not exist in the mirror either.
C9_Witness ==
    /\ last.event.event_type = "moved"
    /\ ~Exists(last.pre, LastMapped)
    /\ ~Exists(last.pre, Parent(LastMappedNew))

\* C10: no failure ends the observer thread, which goes on taking events from
\* the queue: every emitted event is handled or still queued, and a failed event
\* is reported with its kind and source path and leaves the mirror as it was.
C10_FaultIsolation ==
    /\ observer = "running"
    /\ handled + Len(queue) = ops
    /\ Len(log) <= handled
    /\ ~last.ok => (LastReported /\ MirrorUnchanged)

\* C10 witness: after a failed event, a later event changed the mirror.
C10_Witness ==
    /\ log # <<>> /\ last.ok /\ ~MirrorUnchanged

\* ------------------------------------------------------------------ the handler's frame
Handled == last.event.event_type # "none"

LastSrc == Norm(last.event.src_path)

Under(p, root) == IsPrefix(Norm(root), Norm(p))

\* The event names paths of the watched root only.
InsideWatch(event) ==
    /\ Under(event.src_path, server1_folder)
    /\ event.event_type = "moved" => Under(event.dest_path, server1_folder)

\* The paths under root exist in f and g alike, with the same nodes.
SameUnder(f, g, root) ==
    /\ \A p \in DOMAIN f : Under(p, root) => p \in DOMAIN g /\ g[p] = f[p]
    /\ \A p \in DOMAIN g : Under(p, root) => p \in DOMAIN f

\* C11: whatever the kind of an event on a path of the watched root and however
\* its handling ends, every file and directory under A is after the handling
\* what it was before it.
C11_HandlerFrame ==
    (Handled /\ InsideWatch(last.event)) => SameUnder(last.pre, fs, server1_folder)

\* C11 witness: a Moved event of the watched root was handled with success and
\* changed the mirror while A held files.
C11_Witness ==
    /\ last.event.event_type = "moved" /\ InsideWatch(last.event)
    /\ last.ok /\ ~MirrorUnchanged
    /\ \E p \in DOMAIN fs : Under(p, server1_folder) /\ fs[p].kind = "file"

\* C12 (as claimed): an event whose source path, or for Moved destination
\* path, lies outside the watched root ends in the reported error of a rejected
\* path mapping, and its handling changes nothing in the file system.
C12_OutsideRejected ==
    (Handled /\ ~InsideWatch(last.event)) => (~last.ok /\ LastReported /\ fs = last.pre)

\* ------------------------------------------------------------------ the mapping round trip
MappedBack == mapping.hops = 2 /\ Under(mapping.p, mapping.r1)

\* C13 (as claimed): a path under R1, R1 itself included, mapped from R1 to R2
\* and back from R2 to R1 is exactly the path.
C13_RoundTrip ==
    MappedBack => mapping.at = mapping.p

\* C13 (amended): the path mapped from R1 to R2 lies under R2 at the same
\* relative position, and mapped back it denotes the path it started from (equal
\* once "." and ".." are resolved); it is the very same path when the path is
\* free of "." and ".." and is not R1 itself.
C13_RoundTripAmended ==
    /\ (mapping.hops = 1 /\ Under(mapping.p, mapping.r1)) =>
          /\ Under(mapping.at, mapping.r2)
          /\ Relpath(mapping.at, mapping.r2) = Relpath(mapping.p, mapping.r1)
    /\ MappedBack =>
          /\ Norm(mapping.at) = Norm(mapping.p)
          /\ (mapping.p = Norm(mapping.p) /\ mapping.p # mapping.r1) =>
                mapping.at = mapping.p

\* C13 witness: a path two levels below R1, free of "." and "..", was mapped to
\* a different root and back.
C13_Witness ==
    /\ MappedBack /\ mapping.r1 # mapping.r2
    /\ Len(Norm(mapping.p)) = Len(mapping.r1) + 2
    /\ mapping.p = Norm(mapping.p)

\* ------------------------------------------------------------------ Modified events
\* C18: a Modified event on a path that is a directory changes neither root and
\* raises nothing; a Modified event on a path that is a file, with mapped(path)
\* a file or absent from an existing directory, leaves at mapped(path) a file
\* with the content and modification time of the source, whether the mirror
\* copy was older or newer, and changes nothing else.
C18_Modified ==
    (last.event.event_type = "modified" /\ InsideWatch(last.event)) =>
        /\ IsDir(last.pre, LastSrc) => (last.ok /\ fs = last.pre)
        /\ (/\ IsFile(last.pre, LastSrc)
            /\ ~IsDir(last.pre, LastMapped)
            /\ IsDir(last.pre, Parent(LastMapped))) =>
               /\ last.ok
               /\ IsFile(fs, LastMapped)
               /\ fs[LastMapped] = last.pre[LastSrc]
               /\ SameUnder(last.pre, fs, server1_folder)
               /\ \A q \in DOMAIN last.pre :
                     (Under(q, server2_folder) /\ q # LastMapped) =>
                        q \in DOMAIN fs /\ View(fs[q]) = View(last.pre[q])

\* C18 witness: a Modified event of a file was handled while the mirror copy was
\* newer than the source.
C18_Witness ==
    /\ last.event.event_type = "modified" /\ InsideWatch(last.event)
    /\ IsFile(last.pre, LastSrc) /\ IsFile(last.pre, LastMapped)
    /\ last.pre[LastMapped].mtime > last.pre[LastSrc].mtime
    /\ last.ok

\* ------------------------------------------------------------------ reconciliation, continued
\* C14 (as claimed): no failure on one file ends reconciliation: the pass goes
\* on with the remaining files, the later passes and calls run and the observer
\* is started, so the run is never ended by an exception.
C14_ScanIsolation ==
    pc # "crashed"

\* p is a directory without any file below it in f.
EmptyDirAt(f, p) ==
    /\ IsDir(f, p)
    /\ \A q \in DOMAIN f : IsPrefix(p, q) => f[q].kind = "dir"

\* The same relative path under the other root.
Counterpart(p) ==
    IF IsPrefix(server1_folder, p)
    THEN Mapped(p, server1_folder, server2_folder)
    ELSE Mapped(p, server2_folder, server1_folder)

InRoots(p) == Len(p) >= 2 /\ (IsPrefix(server1_folder, p) \/ IsPrefix(server2_folder, p))

\* Directories made since start-up.
NewDirs == {p \in DOMAIN fs : fs[p].kind = "dir" /\ p \notin DOMAIN fs0}

\* C15 (as claimed): once reconciliation has ended, a directory that existed on
\* one side only and had no file in its subtree is still absent from the other
\* side, and every directory made is an ancestor of a file of the other side.
C15_EmptyDirsStay ==
    /\ SyncEnded =>
          \A p \in DOMAIN fs0 :
              (InRoots(p) /\ EmptyDirAt(fs0, p) /\ ~Exists(fs0, Counterpart(p))) =>
                  ~Exists(fs, Counterpart(p))
    /\ \A p \in NewDirs : ~EmptyDirAt(fs0, Counterpart(p))

\* C15 (amended): reconciliation propagates directories whether or not they
\* hold files: once both calls have returned, every directory that existed on
\* one side only, the empty ones included, is a directory on both sides; and at
\* any time the directories made are counterparts of directories that existed
\* at start-up on the other side, and nothing else.
C15_DirsPropagate ==
    /\ SyncReturned =>
          \A p \in DOMAIN fs0 :
              (InRoots(p) /\ IsDir(fs0, p) /\ ~Exists(fs0, Counterpart(p))) =>
                  IsDir(fs, p) /\ IsDir(fs, Counterpart(p))
    /\ \A p \in NewDirs : InRoots(p) /\ IsDir(fs0, Counterpart(p))

\* C15 witness: both calls returned on trees where an empty directory existed
\* under A only and a directory holding a file under B only.
C15_Witness ==
    /\ SyncReturned
    /\ \E p \in DOMAIN fs0 :
          /\ IsPrefix(server1_folder, p) /\ InRoots(p)
          /\ EmptyDirAt(fs0, p) /\ ~Exists(fs0, Counterpart(p))
    /\ \E p \in DOMAIN fs0 :
          /\ IsPrefix(server2_folder, p) /\ InRoots(p)
          /\ IsDir(fs0, p) /\ ~EmptyDirAt(fs0, p) /\ ~Exists(fs0, Counterpart(p))

\* The file of cur taken by a step of the file loop.
Taken == CHOOSE file \in files : file \notin files'
TakenSrc == Norm(Join(cur, <<Taken>>))
TakenDest == Norm(Join(Join(OtherRoot, Relpath(cur, WalkRoot)), <<Taken>>))

\* C16: in every step of reconciliation, (a) a file stays a file and its
\* modification time does not decrease; (b) a file that is written has the
\* content and modification time of a file of the state before, and either did
\* not exist or had a strictly smaller modification time; (c) the file loop
\* copies the file it takes exactly when the destination does not exist or the
\* source's modification time is strictly greater than the destination's.
C16_Step ==
    /\ \A p \in DOMAIN fs :
          fs[p].kind = "file" =>
              /\ p \in DOMAIN fs' /\ fs'[p].kind = "file"
              /\ fs'[p].mtime >= fs[p].mtime
    /\ \A p \in DOMAIN fs' :
          (fs'[p].kind = "file" /\ (p \notin DOMAIN fs \/ fs'[p] # fs[p])) =>
              \E q \in DOMAIN fs :
                  /\ fs[q].kind = "file"
                  /\ fs'[p] = fs[q]
                  /\ p \in DOMAIN fs => fs[q].mtime > fs[p].mtime
    /\ (files # {} /\ files' # files) =>
          /\ (copied' # copied) <=>
                (TakenDest \notin DOMAIN fs \/ fs[TakenSrc].mtime > fs[TakenDest].mtime)
          /\ (copied' = copied) <=> (fs' = fs)

C19_Step ==
    (NoConflict0 /\ call = 2) => (fs' = fs /\ copied' = copied /\ pc' # "crashed")

C19_SecondCallIdle == [][C19_Step]_vars

\* C19 witness: the second call returned after a first call that copied files in
\* both of its loops and made a directory.
C19_Witness ==
    /\ SyncReturned /\ NoConflict0 /\ call = 2
    /\ \E c \in copied : c.pass = "fwd"
    /\ \E c \in copied : c.pass = "rev"
    /\ NewDirs # {}

\* ------------------------------------------------------------------ Created events of directories
\* C17 (as claimed): after a Created event generated for a directory has been
\* handled, mapped(path) is a directory of the mirror, whatever the mirror and
\* the source path held when the event was handled.
C17_CreatedDir ==
    (last.event.event_type = "created" /\ last.event.is_directory) =>
        (last.ok /\ IsDir(fs, LastMapped))

====
